---- MODULE Spec2Model ----
(***************************************************************************)
(* ui-next/scripts/find-free-port.py: a 16 line script that probes random  *)
(* loopback ports with a throwaway socket and prints the first one that    *)
(* binds, or 0 after 100 failed binds.                                     *)
(*                                                                         *)
(* The script is a straight line program; every statement is one action   *)
(* and pc names the statement that runs next.  The operating system is    *)
(* the environment: which ports other processes hold (taken), and whether *)
(* socket(), setsockopt(), bind() and close() raise OSError.              *)
(***************************************************************************)
EXTENDS Integers, Sequences, FiniteSets

\* The interval starting at port 0.
LOW_zero == 0

\* line 5: LOW, HIGH = 20000, 60000
LOW == 20000
HIGH == 60000
\* line 6: range(100)
MaxAttempts == 100

\* The draws that are explored: the PortsPerEnd lowest and the PortsPerEnd
\* highest values of the interval.
PortsPerEnd == 2

NoPort == -1
Running == -1

Min2(a, b) == IF a <= b THEN a ELSE b
Max2(a, b) == IF a >= b THEN a ELSE b

\* random.randint(a, b) drawing one value past the upper end.
randint_wide(a, b) == (a .. Min2(a + PortsPerEnd - 1, b + 1)) \cup (Max2(b - PortsPerEnd + 2, a) .. (b + 1))

\* random.randint(a, b): any integer N with a <= N <= b, both ends included.
randint(a, b) == (a .. Min2(a + PortsPerEnd - 1, b)) \cup (Max2(b - PortsPerEnd + 1, a) .. b)

VARIABLES
    pc,         \* the statement that runs next
    i,          \* iterations of the for loop started so far
    port,       \* the variable port (NoPort before the first draw)
    s,          \* the variable s: id of the socket the with block holds
    socks,      \* open sockets of the process: [id, reuse, port]
    pending,    \* what is leaving the with block when __exit__ runs
    output,     \* lines written to standard output, one integer per line
    exit,       \* exit status of the process (Running until it ends)
    taken,      \* loopback ports held by other processes
    binds,      \* history: calls of s.bind so far
    succeeded,  \* history: ports a bind of this run succeeded on
    transient,  \* history: a bind failed on a port nobody held
    raised      \* history: the call other than bind that raised OSError

vars == <<pc, i, port, s, socks, pending, output, exit, taken, binds,
          succeeded, transient, raised>>

Init ==
    /\ pc = "for"
    /\ i = 0
    /\ port = NoPort
    /\ s = 0
    /\ socks = {}
    /\ pending = "none"
    /\ output = << >>
    /\ exit = Running
    /\ taken \in SUBSET randint(LOW, HIGH)
    /\ binds = 0
    /\ succeeded = {}
    /\ transient = FALSE
    /\ raised = "none"

\* The socket record the variable s refers to.
Sock(id) == CHOOSE r \in socks : r.id = id

\* A socket of this process is bound to p.
Holds(p) == \E r \in socks : r.port = p

\* A new socket, without SO_REUSEADDR, can be bound to (127.0.0.1, p).
FreshBindSucceeds(p) == p \notin taken /\ ~Holds(p)

\* The draw avoiding the candidate that was probed last.
Draw_norepeat ==
    /\ pc = "for"
    /\ i < MaxAttempts
    /\ i' = i + 1
    /\ port' \in randint(LOW, HIGH) \ {port}
    /\ pc' = "socket"
    /\ UNCHANGED <<s, socks, pending, output, exit, taken, binds, succeeded,
                   transient, raised>>

\* The loop written as range(101).
Draw_onemore ==
    /\ pc = "for"
    /\ i < MaxAttempts + 1
    /\ i' = i + 1
    /\ port' \in randint(LOW, HIGH)
    /\ pc' = "socket"
    /\ UNCHANGED <<s, socks, pending, output, exit, taken, binds, succeeded,
                   transient, raised>>

\* lines 6-7: the next iteration of the loop draws a candidate.
Draw ==
    /\ pc = "for"
    /\ i < MaxAttempts
    /\ i' = i + 1
    /\ port' \in randint(LOW, HIGH)
    /\ pc' = "socket"
    /\ UNCHANGED <<s, socks, pending, output, exit, taken, binds, succeeded,
                   transient, raised>>

\* The loop giving up one iteration early.
Exhausted_early ==
    /\ pc = "for"
    /\ i >= MaxAttempts - 1
    /\ pc' = "print0"
    /\ UNCHANGED <<i, port, s, socks, pending, output, exit, taken, binds,
                   succeeded, transient, raised>>

\* line 6: range(100) is used up, the loop ends.
Exhausted ==
    /\ pc = "for"
    /\ i >= MaxAttempts
    /\ pc' = "print0"
    /\ UNCHANGED <<i, port, s, socks, pending, output, exit, taken, binds,
                   succeeded, transient, raised>>

\* line 8: socket.socket(AF_INET, SOCK_STREAM) returns; closing(...) as s.
SocketCreate ==
    /\ pc = "socket"
    /\ socks' = socks \cup {[id |-> i, reuse |-> FALSE, port |-> NoPort]}
    /\ s' = i
    /\ pc' = "setsockopt"
    /\ UNCHANGED <<i, port, pending, output, exit, taken, binds, succeeded,
                   transient, raised>>

\* socket.socket(...) moved inside the try: its OSError is retried.
SocketCreateFail_retried ==
    /\ pc = "socket"
    /\ raised' = "socket"
    /\ pc' = "for"
    /\ UNCHANGED <<i, port, s, socks, pending, output, exit, taken, binds,
                   succeeded, transient>>

\* line 8: socket.socket raises OSError; nothing catches it, the
\* interpreter ends with a traceback and status 1.
SocketCreateFail ==
    /\ pc = "socket"
    /\ raised' = "socket"
    /\ exit' = 1
    /\ pc' = "done"
    /\ UNCHANGED <<i, port, s, socks, pending, output, taken, binds,
                   succeeded, transient>>

\* Line 9 left out: the socket goes to bind as it was created.
SetSockOpt_skipped ==
    /\ pc = "setsockopt"
    /\ pc' = "bind"
    /\ UNCHANGED <<i, port, s, socks, pending, output, exit, taken, binds,
                   succeeded, transient, raised>>

\* line 9: s.setsockopt(SOL_SOCKET, SO_REUSEADDR, 1) returns.
SetSockOpt ==
    /\ pc = "setsockopt"
    /\ socks' = (socks \ {Sock(s)}) \cup {[Sock(s) EXCEPT !.reuse = TRUE]}
    /\ pc' = "bind"
    /\ UNCHANGED <<i, port, s, pending, output, exit, taken, binds,
                   succeeded, transient, raised>>

\* setsockopt moved inside the try: its OSError takes the continue.
SetSockOptFail_caught ==
    /\ pc = "setsockopt"
    /\ raised' = "setsockopt"
    /\ pending' = "continue"
    /\ pc' = "close"
    /\ UNCHANGED <<i, port, s, socks, output, exit, taken, binds, succeeded,
                   transient>>

\* line 9: setsockopt raises OSError outside the try: it leaves the with
\* block through __exit__.
SetSockOptFail ==
    /\ pc = "setsockopt"
    /\ raised' = "setsockopt"
    /\ pending' = "OSError"
    /\ pc' = "close"
    /\ UNCHANGED <<i, port, s, socks, output, exit, taken, binds, succeeded,
                   transient>>

\* line 11: s.bind(('127.0.0.1', port)) returns: nobody else holds port.
BindOK ==
    /\ pc = "bind"
    /\ port \notin taken
    /\ socks' = (socks \ {Sock(s)}) \cup {[Sock(s) EXCEPT !.port = port]}
    /\ binds' = binds + 1
    /\ succeeded' = succeeded \cup {port}
    /\ pc' = "print"
    /\ UNCHANGED <<i, port, s, pending, output, exit, taken, transient,
                   raised>>

\* lines 11-13: bind raises OSError (port in use, or any other OS error);
\* except OSError: continue leaves the with block through __exit__.
BindFail ==
    /\ pc = "bind"
    /\ binds' = binds + 1
    /\ transient' = (transient \/ port \notin taken)
    /\ pending' = "continue"
    /\ pc' = "close"
    /\ UNCHANGED <<i, port, s, socks, output, exit, taken, succeeded,
                   raised>>

\* The loop counter printed instead of the candidate.
PrintPort_counter ==
    /\ pc = "print"
    /\ output' = Append(output, LOW + i)
    /\ pc' = "raise"
    /\ UNCHANGED <<i, port, s, socks, pending, exit, taken, binds,
                   succeeded, transient, raised>>

\* line 14: print(port), inside the with block.
PrintPort ==
    /\ pc = "print"
    /\ output' = Append(output, port)
    /\ pc' = "raise"
    /\ UNCHANGED <<i, port, s, socks, pending, exit, taken, binds,
                   succeeded, transient, raised>>

\* Line 15 left out: the with block ends normally after print(port).
RaiseSystemExit_missing ==
    /\ pc = "raise"
    /\ pending' = "continue"
    /\ pc' = "close"
    /\ UNCHANGED <<i, port, s, socks, output, exit, taken, binds, succeeded,
                   transient, raised>>

\* line 15: raise SystemExit(0), inside the with block.
RaiseSystemExit ==
    /\ pc = "raise"
    /\ pending' = "SystemExit"
    /\ pc' = "close"
    /\ UNCHANGED <<i, port, s, socks, output, exit, taken, binds, succeeded,
                   transient, raised>>

\* The socket used without closing(...): nothing closes it.
Close_leak ==
    /\ pc = "close"
    /\ socks' = socks
    /\ pending' = "none"
    /\ \/ /\ pending = "continue"
          /\ pc' = "for"
          /\ exit' = exit
       \/ /\ pending = "SystemExit"
          /\ pc' = "done"
          /\ exit' = 0
       \/ /\ pending = "OSError"
          /\ pc' = "done"
          /\ exit' = 1
    /\ UNCHANGED <<i, port, s, output, taken, binds, succeeded, transient,
                   raised>>

\* The socket closed by hand in the except branch only.
Close_exitleak ==
    /\ pc = "close"
    /\ socks' = IF pending = "continue" THEN {r \in socks : r.id # s} ELSE socks
    /\ pending' = "none"
    /\ \/ /\ pending = "continue"
          /\ pc' = "for"
          /\ exit' = exit
       \/ /\ pending = "SystemExit"
          /\ pc' = "done"
          /\ exit' = 0
       \/ /\ pending = "OSError"
          /\ pc' = "done"
          /\ exit' = 1
    /\ UNCHANGED <<i, port, s, output, taken, binds, succeeded, transient,
                   raised>>

\* line 8, closing.__exit__: s.close() returns and what was leaving the
\* block goes on: continue to the loop head, SystemExit(0) to status 0, an
\* OSError to a traceback and status 1.
Close ==
    /\ pc = "close"
    /\ socks' = {r \in socks : r.id # s}
    /\ pending' = "none"
    /\ \/ /\ pending = "continue"
          /\ pc' = "for"
          /\ exit' = exit
       \/ /\ pending = "SystemExit"
          /\ pc' = "done"
          /\ exit' = 0
       \/ /\ pending = "OSError"
          /\ pc' = "done"
          /\ exit' = 1
    /\ UNCHANGED <<i, port, s, output, taken, binds, succeeded, transient,
                   raised>>

\* line 8, closing.__exit__: s.close() raises OSError.  The descriptor is
\* given up all the same (CPython forgets it before calling close(2), and
\* close(2) on Linux releases it on error); the OSError replaces what was
\* leaving the block and nothing catches it.
CloseFail ==
    /\ pc = "close"
    /\ socks' = {r \in socks : r.id # s}
    /\ pending' = "none"
    /\ raised' = IF raised = "none" THEN "close" ELSE raised
    /\ exit' = 1
    /\ pc' = "done"
    /\ UNCHANGED <<i, port, s, output, taken, binds, succeeded, transient>>

\* Exhaustion reported through the exit status as well.
PrintZero_fail ==
    /\ pc = "print0"
    /\ output' = Append(output, 0)
    /\ exit' = 1
    /\ pc' = "done"
    /\ UNCHANGED <<i, port, s, socks, pending, taken, binds, succeeded,
                   transient, raised>>

\* line 16: print(0), then the script ends and the interpreter exits 0.
PrintZero ==
    /\ pc = "print0"
    /\ output' = Append(output, 0)
    /\ exit' = 0
    /\ pc' = "done"
    /\ UNCHANGED <<i, port, s, socks, pending, taken, binds, succeeded,
                   transient, raised>>

Next ==
    \/ Draw
    \/ Exhausted
    \/ SocketCreate
    \/ SocketCreateFail
    \/ SetSockOpt
    \/ SetSockOptFail
    \/ BindOK
    \/ BindFail
    \/ PrintPort
    \/ RaiseSystemExit
    \/ Close
    \/ CloseFail
    \/ PrintZero

Spec == Init /\ [][Next]_vars

\* The interpreter runs the next statement whenever there is one.
FairSpec == Spec /\ WF_vars(Next)

TypeOK ==
    /\ pc \in {"for", "socket", "setsockopt", "bind", "print", "raise",
               "close", "print0", "done"}
    /\ i \in 0 .. MaxAttempts
    /\ binds \in 0 .. MaxAttempts
    /\ exit \in {Running, 0, 1}
    /\ pending \in {"none", "continue", "SystemExit", "OSError"}
    /\ raised \in {"none", "socket", "setsockopt", "close"}
\* The values printed so far.
Printed == {output[k] : k \in 1 .. Len(output)}

(***************************************************************************)
(* C1: whatever binds succeed or fail, a printed value is 0 or an integer *)
(* v with 20000 <= v <= 60000.                                            *)
(***************************************************************************)
C1_PrintedInRange ==
    \A v \in Printed : v = 0 \/ (20000 <= v /\ v <= 60000)

C1_Witness == pc = "done" /\ exit = 0 /\ output = <<HIGH>>

(***************************************************************************)
(* C2: when a nonzero value v has just been printed, the probe socket     *)
(* bound to v is already closed, so a fresh bind to (127.0.0.1, v)        *)
(* succeeds.                                                              *)
(***************************************************************************)
C2_ClosedBeforeReport ==
    (pc = "raise" /\ output # << >> /\ output[Len(output)] # 0)
        => FreshBindSucceeds(output[Len(output)])

(***************************************************************************)
(* C3: a run in which no call other than bind raised ends with exit       *)
(* status 0, whether a port was found or all 100 binds failed.            *)
(***************************************************************************)
C3_ExitStatusZero == (pc = "done" /\ raised = "none") => exit = 0

C3_Witness ==
    pc = "done" /\ raised = "none" /\ succeeded = {} /\ binds = MaxAttempts
        /\ exit = 0

(***************************************************************************)
(* C4 as stated: every terminated run has written exactly one line.       *)
(***************************************************************************)
C4_ExactlyOneLine == pc = "done" => Len(output) = 1

(***************************************************************************)
(* C4 as amended: no run writes more than one line, a failed candidate is *)
(* never printed, a run that exits with status 0 has written exactly one  *)
(* line, and a terminated run has written no line only if an uncaught     *)
(* OSError of socket(), setsockopt() or close() ended it with status 1.   *)
(***************************************************************************)
C4_OneLineUnlessUncaught ==
    /\ Len(output) <= 1
    /\ Printed \subseteq succeeded \cup {0}
    /\ (pc = "done" /\ exit = 0) => Len(output) = 1
    /\ (pc = "done" /\ Len(output) = 0) => (exit = 1 /\ raised # "none")

C4_Witness ==
    pc = "done" /\ exit = 0 /\ Len(output) = 1 /\ output[1] # 0 /\ binds > 1

(***************************************************************************)
(* C5: every run terminates, and no run calls bind more than 100 times.   *)
(***************************************************************************)
C5_Terminates == <>(pc = "done") /\ [](binds <= 100)

C5_Witness == pc = "done" /\ binds = 100 /\ output = <<LOW>>

(***************************************************************************)
(* C6 as stated: a terminated run in which every bind failed has called   *)
(* bind exactly 100 times, printed 0 and exited with status 0.            *)
(***************************************************************************)
C6_AllFailGivesZero ==
    (pc = "done" /\ succeeded = {})
        => (binds = 100 /\ output = <<0>> /\ exit = 0)

(***************************************************************************)
(* C6 as amended: there is no 101st bind; 0 is printed only after exactly *)
(* 100 binds that all failed; a terminated run without a successful bind  *)
(* either exited with status 0 after exactly 100 binds with 0 printed, or *)
(* was ended with status 1 and nothing printed by an uncaught OSError of  *)
(* socket(), setsockopt() or close().                                     *)
(***************************************************************************)
C6_ExhaustionOrUncaught ==
    /\ binds <= 100
    /\ 0 \in Printed => (binds = 100 /\ succeeded = {})
    /\ (pc = "done" /\ succeeded = {} /\ exit = 0)
           => (binds = 100 /\ output = <<0>>)
    /\ (pc = "done" /\ succeeded = {} /\ exit # 0)
           => (output = << >> /\ exit = 1 /\ raised # "none")

C6_Witness == pc = "done" /\ output = <<0>> /\ binds = 100 /\ exit = 0

(***************************************************************************)
(* C7: at most one probe socket is open at any time, and no socket of an  *)
(* earlier attempt is open when the loop starts an attempt or creates its *)
(* socket.                                                                *)
(***************************************************************************)
C7_OneSocketAtATime ==
    /\ Cardinality(socks) <= 1
    /\ pc \in {"for", "socket"} => socks = {}
    /\ \A r \in socks : r.id = i

C7_Witness == pc = "setsockopt" /\ i = 2 /\ socks # {} /\ binds = 1

(***************************************************************************)
(* C8: once the process has ended, with a port, with 0 or with an         *)
(* uncaught error, none of its sockets is open and none holds the         *)
(* reported port.                                                         *)
(***************************************************************************)
C8_NothingOpenAtExit ==
    pc = "done" => (socks = {} /\ \A v \in Printed : ~Holds(v))

C8_Witness ==
    pc = "done" /\ exit = 0 /\ output # << >> /\ output[1] # 0 /\ socks = {}
        /\ s >= 1

(***************************************************************************)
(* C9: a close that raises does not propagate: the run still prints its   *)
(* result line and exits with status 0.                                   *)
(***************************************************************************)
C9_CloseFailureHarmless ==
    (pc = "done" /\ raised = "close") => (Len(output) = 1 /\ exit = 0)

(***************************************************************************)
(* C10: after a failed bind nothing is printed for the candidate, the     *)
(* socket is closed and the program is at the loop head again (next       *)
(* attempt or exhaustion) with the process still running.                 *)
(***************************************************************************)
C10_BindFailureRecovered ==
    [][(pc = "bind" /\ pc' # "print")
           => (pc' = "close" /\ pending' = "continue" /\ output' = output
                 /\ exit' = Running)]_vars
    /\ [][(pc = "close" /\ pending = "continue")
           => (socks' = {} /\ output' = output /\ exit' = Running
                 /\ pc' = "for")]_vars
(***************************************************************************)
(* C11: once a bind has succeeded no further candidate is drawn, no       *)
(* further socket is created and no further bind is called, and a printed *)
(* port is the candidate of that one successful bind.                     *)
(***************************************************************************)
C11_FirstSuccessReported ==
    /\ [](succeeded # {} => (succeeded = {port} /\ Printed \subseteq {port}))
    /\ [](pc \in {"raise", "done"} /\ succeeded # {} => output = <<port>>)
    /\ [][succeeded # {}
            => (i' = i /\ port' = port /\ binds' = binds
                  /\ succeeded' = succeeded /\ socks' \subseteq socks)]_vars

C11_Witness ==
    pc = "done" /\ succeeded = {HIGH} /\ output = <<HIGH>> /\ binds = 3
        /\ transient

(***************************************************************************)
(* C12: when socket creation raises, the process ends at once with a      *)
(* status other than 0, no line has been printed (neither a port nor 0)   *)
(* and no further attempt is made.                                        *)
(***************************************************************************)
C12_SocketFailurePropagates ==
    /\ [](raised = "socket"
            => (pc = "done" /\ exit # 0 /\ exit # Running /\ output = << >>))
    /\ [][(pc = "socket" /\ pc' # "setsockopt")
            => (raised' = "socket" /\ pc' = "done")]_vars
    /\ [][raised = "socket" => (i' = i /\ binds' = binds /\ socks' = socks)]_vars

C12_Witness ==
    pc = "done" /\ raised = "socket" /\ i = 2 /\ binds = 1 /\ exit = 1

(***************************************************************************)
(* C13: bind is only ever called on a socket on which SO_REUSEADDR has    *)
(* been set since its creation: a socket is created without the option,   *)
(* has it when the program is about to bind, and every bound socket has   *)
(* it.                                                                    *)
(***************************************************************************)
C13_ReuseBeforeBind ==
    /\ [](pc = "setsockopt" /\ raised = "none" => ~Sock(s).reuse)
    /\ [](pc = "bind" => Sock(s).reuse)
    /\ [](\A r \in socks : r.port # NoPort => r.reuse)
    /\ [][binds' # binds => (Sock(s).id = i /\ Sock(s).reuse)]_vars

C13_Witness ==
    pc = "print" /\ binds = 2 /\ Sock(s).reuse /\ Sock(s).port = port

(***************************************************************************)
(* C14: a printed 0 means exactly that 100 binds were made and all        *)
(* failed; a printed nonzero v means a bind to v succeeded in this run;   *)
(* 0 is never a candidate.                                                *)
(***************************************************************************)
C14_ZeroIffExhausted ==
    /\ port # 0
    /\ 0 \notin succeeded
    /\ \A v \in Printed : (v = 0) <=> (binds = 100 /\ succeeded = {})
    /\ \A v \in Printed : v # 0 => v \in succeeded
    /\ (pc = "done" /\ exit = 0 /\ binds = 100 /\ succeeded = {})
           => output = <<0>>

C14_Witness ==
    pc = "done" /\ Printed = {0} /\ succeeded = {} /\ binds = 100
        /\ raised = "none"

(***************************************************************************)
(* C15: whatever was probed before, every port of the interval can be the *)
(* next candidate, the one just probed included (draws are with           *)
(* replacement, nothing is remembered).  The witness is a run that prints *)
(* 0 although a port of the interval was free during the whole run and    *)
(* every bind failed only because its port was held.                      *)
(***************************************************************************)
C15_DrawsWithReplacement ==
    (pc = "for" /\ i < 100)
        => \A p \in randint(20000, 60000) : ENABLED (Draw /\ port' = p)

C15_Witness ==
    /\ pc = "done"
    /\ output = <<0>>
    /\ ~transient
    /\ \E p \in randint(LOW, HIGH) : p \notin taken

(***************************************************************************)
(* C16: when setsockopt raises, the error is not retried: no further      *)
(* candidate is drawn and no bind is called, the socket of the attempt is *)
(* closed, nothing is printed and the process ends with a status other    *)
(* than 0.                                                                *)
(***************************************************************************)
C16_SetSockOptFailurePropagates ==
    /\ [](raised = "setsockopt"
            => (output = << >> /\ pc \in {"close", "done"}
                  /\ (pc = "close" => pending = "OSError")
                  /\ (pc = "done" => (exit = 1 /\ socks = {}))))
    /\ [][raised = "setsockopt"
            => (i' = i /\ binds' = binds /\ output' = output
                  /\ socks' = {} /\ pc' = "done")]_vars

C16_Witness ==
    pc = "done" /\ raised = "setsockopt" /\ exit = 1 /\ socks = {} /\ i = 2
        /\ binds = 1
====
